---- MODULE Spec2Model ----
(***************************************************************************)
(* Model of the polling loop of AutoSearch (main.py), the listing store    *)
(* (src/database/storage.py), the retry loop of AutoScoutScraper.search    *)
(* (src/scraper/autoscout.py) and the Telegram notifier                    *)
(* (src/notifier/notification.py).                                         *)
(*                                                                         *)
(* One polling cycle is: reset the per-cycle accumulators, run every       *)
(* configured (make, model) search in order, process the listings a search *)
(* returns one by one (insert + notify, or refresh last_seen), then run    *)
(* remove_old_listings once over the accumulated ids, then sleep.          *)
(*                                                                         *)
(* Abstractions:                                                           *)
(*  - a listing carries id, model, price, title, first_seen, last_seen;    *)
(*    year, kilometers, location and url travel through the code exactly   *)
(*    as price does, make exactly as model does;                           *)
(*  - the clock is a natural number in units of the polling interval: it   *)
(*    advances by one at the inter-cycle sleep; datetime.now() reads it;   *)
(*  - all_current_ids is the set of the ids appended to the list: the     *)
(*    code reads the list only through "not current_ids" and NOT IN;       *)
(*  - a notification counts as sent when either the HTML message or the    *)
(*    simplified fallback message was delivered;                           *)
(*  - the store starts empty (a fresh data/listings.db);                   *)
(*  - sqlite3 stores a datetime parameter as text and returns text, so a   *)
(*    timestamp is a record [kind, t] with kind "datetime" or "text".      *)
(*                                                                         *)
(* Further specifications follow the loop: SpecMain is main() from its     *)
(* start to its exit; SpecPartition, SpecUrl, SpecConfig, SpecStore,       *)
(* SpecTitle and SpecExtract apply one function of the program to every    *)
(* input of a bounded set (inp is the input, out the result, stage the     *)
(* position).                                                              *)
(***************************************************************************)
EXTENDS Integers, Sequences, FiniteSets, TLC

\* ---------------------------------------------------------------- bounds
MaxCycles == 3
MaxListings == 2
NumSearches == 2

\* ------------------------------------------------------ program constants
max_retries == 3

\* ------------------------------------------------------------ input sets
Ids == {"A", "B"}
Prices == {100, 200}
Titles == {"Camper"}
\* models a configuration file may name; "C(" does not compile as a regex
Models == {"T5", "C("}

VARIABLES
    config,             \* config[i]: the model of the i-th search of the cycle
    store,              \* the listings table: id -> row
    pc,                 \* position of main(): cycle_start, fetch, process, remove, sleep
    cycle_count,
    search_idx,         \* position in the nested for-loops over the searches
    retry_count,        \* AutoScoutScraper.search: retry_count
    listings,           \* the list scraper.search returned
    listing_idx,        \* position of "for listing in listings"
    all_current_ids,
    returned_ids,       \* history: the ids scraper.search returned in this cycle
    cycle_stats,        \* total_listings, new_listings, updated_listings, searches_completed, searches_failed
    removed_count,
    now,                \* the clock
    notify_calls,       \* id -> number of notify_new_listing calls made so far
    last_notify,        \* id and outcome of the latest notify_new_listing call
    attempts,           \* history: HTTP requests sent by the current call of search
    scraper,            \* main()'s local "scraper": unbound, open or closed
    close_calls,        \* history: number of scraper.close() calls
    warmup_requests,    \* history: number of requests to the base URL (initialize)
    exit_cause,         \* why main() left the loop: none, startup, signal or error
    intervals,          \* the general section of each loaded configuration file
    slept,              \* seconds passed to the latest asyncio.sleep
    inp,                \* the argument of the function under study
    out,                \* its result
    stage               \* idle, ready (argument chosen) or done (function applied)

\* the session bookkeeping of main() and the variables of the function studies
session == <<scraper, close_calls, warmup_requests, exit_cause>>
study == <<inp, out, stage>>

vars == <<config, store, pc, cycle_count, search_idx, retry_count, listings,
          listing_idx, all_current_ids, returned_ids, cycle_stats,
          removed_count, now, notify_calls, last_notify, attempts, scraper,
          close_calls, warmup_requests, exit_cause, intervals, slept, inp,
          out, stage>>

\* ------------------------------------------------------------ timestamps
DateTimeNow(t) == [kind |-> "datetime", t |-> t]

\* sqlite3's default adapter: a datetime parameter is bound as its text form,
\* a str parameter is bound as it is
Adapt(ts) == [kind |-> "text", t |-> ts.t]

\* ------------------------------------------------------------- the store
\* INSERT OR REPLACE INTO listings ... : the row with the listing's id is
\* replaced as a whole
AddListing(st, listing) ==
    [i \in DOMAIN st \cup {listing.id} |->
        IF i = listing.id
        THEN [id         |-> listing.id,
              price      |-> listing.price,
              title      |-> listing.title,
              first_seen |-> Adapt(listing.first_seen),
              last_seen  |-> Adapt(listing.last_seen)]
        ELSE st[i]]

\* SELECT * FROM listings WHERE id = ? : the row as a CarListing, or None;
\* the result is the set of rows found (empty for None)
GetListing(st, listing_id) ==
    IF listing_id \in DOMAIN st THEN {st[listing_id]} ELSE {}

\* remove_old_listings without its early return: what the statements below
\* the guard do for every current_ids
RemoveOldListings_NoGuard(st, current_ids) ==
    IF current_ids # {}
    THEN [store |-> [i \in {j \in DOMAIN st : j \in current_ids} |-> st[i]],
          count |-> Cardinality({j \in DOMAIN st : j \notin current_ids})]
    ELSE [store |-> [i \in {} |-> st[i]],
          count |-> Cardinality(DOMAIN st)]

\* remove_old_listings with IN for NOT IN in the DELETE statement
RemoveOldListings_In(st, current_ids) ==
    IF current_ids = {}
    THEN [store |-> st, count |-> 0]
    ELSE [store |-> [i \in {j \in DOMAIN st : j \notin current_ids} |-> st[i]],
          count |-> Cardinality({j \in DOMAIN st : j \notin current_ids})]

\* Database.remove_old_listings: the new table and the returned count
RemoveOldListings(st, current_ids) ==
    IF current_ids = {}
    THEN [store |-> st, count |-> 0]
    ELSE [store |-> [i \in {j \in DOMAIN st : j \in current_ids} |-> st[i]],
          count |-> Cardinality({j \in DOMAIN st : j \notin current_ids})]

\* --------------------------------------------------------- the notifier
\* re.sub(f"^{make}\\s*{model}\\s*", ...) compiles the pattern built from the
\* configured names without escaping them
PatternCompiles(model) == model # "C("

\* _format_listing_message raises exactly when it reaches re.sub with a
\* pattern that does not compile: the title must be non-blank for that
FormatRaises(listing) ==
    listing.title # "" /\ ~PatternCompiles(listing.model)

\* outcomes of one notify_new_listing call:
\*   sent      the first send_message, or the fallback one, succeeded
\*   failed    both sends failed (logged, swallowed)
\*   raised    _format_listing_message raised, outside any try
NotifyNewListing(listing) ==
    IF FormatRaises(listing) THEN {"raised"} ELSE {"sent", "failed"}

\* ------------------------------------------------ main(): per-listing body
\* the classification test "if not existing_listing" taken also when the
\* scraped price differs from the stored one
IsNew_PriceChanged(st, listing) ==
    \/ GetListing(st, listing.id) = {}
    \/ \E e \in GetListing(st, listing.id) : e.price # listing.price

IsNew_Always(st, listing) == TRUE

\* existing_listing = await db.get_listing(listing.id); if not existing_listing
IsNew(st, listing) == GetListing(st, listing.id) = {}

\* the store after the new-listing branch when notify_new_listing is called
\* before add_listing: a raising notifier skips the insert
StoreAfterNew_NotifyFirst(st, listing, outcome) ==
    IF outcome = "raised" THEN st ELSE AddListing(st, listing)

\* the store after the new-listing branch: add_listing runs before
\* notify_new_listing, whatever the notifier then does
StoreAfterNew(st, listing, outcome) == AddListing(st, listing)

\* the update branch writing back the scraped listing instead of the stored one
UpdatedListing_Scraped(existing, listing, t) ==
    [listing EXCEPT !.last_seen = DateTimeNow(t)]

\* the update branch: existing_listing.last_seen = datetime.now(); the
\* object written back is the one read from the store
UpdatedListing(existing, listing, t) ==
    [existing EXCEPT !.last_seen = DateTimeNow(t)]

\* ------------------------------------------------------------ the loop
ZeroStats == [total_listings |-> 0, new_listings |-> 0, updated_listings |-> 0,
              searches_completed |-> 0, searches_failed |-> 0]

\* what scraper.search can return for search number i at time t: every list
\* of at most MaxListings extracted listings
Listing(i, id, price, title, t) ==
    [id |-> id, model |-> config[i], price |-> price, title |-> title,
     first_seen |-> DateTimeNow(t), last_seen |-> DateTimeNow(t)]

ListingsAt(i, t) ==
    {Listing(i, id, p, ti, t) : id \in Ids, p \in Prices, ti \in Titles}

\* the lists of at most n extracted listings
SearchResultsUpTo(i, t, n) ==
    UNION {[1..m -> ListingsAt(i, t)] : m \in 0..n}

SearchResults(i, t) == SearchResultsUpTo(i, t, MaxListings)

\* one configuration file whose general section has no check_interval_minutes
DefaultIntervals == <<[has |-> FALSE, minutes |-> 0]>>

\* general.get('check_interval_minutes', 15)
CheckInterval(g) == IF g.has THEN g.minutes ELSE 15

\* max(...) in place of min(...)
MinInterval_Max(gs) ==
    CHOOSE m \in {CheckInterval(gs[k]) : k \in DOMAIN gs} :
        \A k \in DOMAIN gs : CheckInterval(gs[k]) <= m

\* min(config['general'].get('check_interval_minutes', 15) for config in configs)
MinInterval(gs) ==
    CHOOSE m \in {CheckInterval(gs[k]) : k \in DOMAIN gs} :
        \A k \in DOMAIN gs : m <= CheckInterval(gs[k])

\* the loop's variables before the first cycle, the store and the histories
\* at the start of a run
LoopStart ==
    /\ cycle_count = 0
    /\ search_idx = 1
    /\ retry_count = 0
    /\ listings = <<>>
    /\ listing_idx = 1
    /\ all_current_ids = {}
    /\ returned_ids = {}
    /\ cycle_stats = ZeroStats
    /\ removed_count = 0
    /\ now = 0
    /\ notify_calls = [i \in Ids |-> 0]
    /\ last_notify = <<>>
    /\ attempts = 0

\* the state of main() when the startup has succeeded and the loop begins,
\* with one configuration file that sets no interval
Init ==
    /\ config \in [1..NumSearches -> Models]
    /\ store = [i \in {} |-> 0]
    /\ pc = "cycle_start"
    /\ LoopStart
    /\ scraper = "open"
    /\ close_calls = 0
    /\ warmup_requests = 0
    /\ exit_cause = "none"
    /\ intervals = DefaultIntervals
    /\ slept = 0
    /\ inp = <<>>
    /\ out = <<>>
    /\ stage = "idle"

\* while True: cycle_count += 1; all_current_ids = []; cycle_stats = {...}
StartCycle ==
    /\ pc = "cycle_start"
    /\ cycle_count < MaxCycles
    /\ cycle_count' = cycle_count + 1
    /\ all_current_ids' = {}
    /\ returned_ids' = {}
    /\ cycle_stats' = ZeroStats
    /\ search_idx' = 1
    /\ retry_count' = 0
    /\ pc' = IF NumSearches >= 1 THEN "fetch" ELSE "remove"
    /\ attempts' = 0
    /\ UNCHANGED <<config, store, listings, listing_idx, removed_count, now,
                   notify_calls, last_notify, session, intervals, slept, study>>

\* the control state after the body of "for model in search['models']" ends
\* for search number search_idx, normally or through the except branch
NextSearch ==
    /\ search_idx' = search_idx + 1
    /\ retry_count' = 0
    /\ attempts' = 0
    /\ listings' = <<>>
    /\ listing_idx' = 1
    /\ pc' = IF search_idx < NumSearches THEN "fetch" ELSE "remove"

\* the except branch of the per-search try aborting the loops over the
\* searches
SearchFailed_Abort(stats) ==
    /\ cycle_stats' = [stats EXCEPT !.searches_failed = @ + 1]
    /\ search_idx' = NumSearches + 1
    /\ retry_count' = 0
    /\ attempts' = 0
    /\ listings' = <<>>
    /\ listing_idx' = 1
    /\ pc' = "remove"

\* except Exception as e: searches_failed += 1; logger.error; notify_error
\* (notify_error has its whole body in a try and changes no program state);
\* stats is cycle_stats as the try body left it
SearchFailed(stats) ==
    /\ cycle_stats' = [stats EXCEPT !.searches_failed = @ + 1]
    /\ NextSearch

\* scraper.search raises something that is not a requests.RequestException
\* (build_search_url on a malformed filter, the HTML parser, ...)
SearchRaises ==
    /\ pc = "fetch"
    /\ retry_count = 0
    /\ SearchFailed(cycle_stats)
    /\ UNCHANGED <<config, store, cycle_count,
                   all_current_ids, returned_ids, removed_count, now, notify_calls,
                   last_notify, session, intervals, slept, study>>

\* the retry loop with "retry_count <= max_retries" and "retry_count >
\* max_retries": one more request than the bound
FetchFails_OneMore ==
    /\ pc = "fetch"
    /\ retry_count <= max_retries
    /\ retry_count' = retry_count + 1
    /\ attempts' = attempts + 1
    /\ IF retry_count + 1 > max_retries
       THEN /\ listings' = <<>>
            /\ listing_idx' = 1
            /\ pc' = "process"
       ELSE /\ pc' = "fetch"
            /\ UNCHANGED <<listings, listing_idx>>
    /\ UNCHANGED <<config, store, cycle_count, search_idx, all_current_ids,
                   returned_ids, cycle_stats, removed_count, now, notify_calls,
                   last_notify, session, intervals, slept, study>>

\* one attempt of the retry loop fails with a RequestException: time.sleep,
\* session.get or raise_for_status raises, retry_count += 1, and the call
\* returns [] when retry_count >= max_retries
FetchFails ==
    /\ pc = "fetch"
    /\ retry_count < max_retries
    /\ retry_count' = retry_count + 1
    /\ attempts' = attempts + 1
    /\ IF retry_count + 1 >= max_retries
       THEN /\ listings' = <<>>
            /\ listing_idx' = 1
            /\ pc' = "process"
       ELSE /\ pc' = "fetch"
            /\ UNCHANGED <<listings, listing_idx>>
    /\ UNCHANGED <<config, store, cycle_count, search_idx, all_current_ids,
                   returned_ids, cycle_stats, removed_count, now, notify_calls,
                   last_notify, session, intervals, slept, study>>

\* one attempt succeeds: search returns one of the lists in results;
\* main adds the number of its listings to total_listings
FetchReturnsFrom(results) ==
    /\ pc = "fetch"
    /\ retry_count < max_retries
    /\ \E ls \in results :
          /\ listings' = ls
          /\ returned_ids' = returned_ids \cup {ls[k].id : k \in DOMAIN ls}
          /\ cycle_stats' = [cycle_stats EXCEPT !.total_listings = @ + Len(ls)]
    /\ listing_idx' = 1
    /\ pc' = "process"
    /\ attempts' = attempts + 1
    /\ UNCHANGED <<config, store, cycle_count, search_idx, retry_count,
                   all_current_ids, removed_count, now, notify_calls, last_notify,
                   session, intervals, slept, study>>

FetchReturns == FetchReturnsFrom(SearchResults(search_idx, now))

\* one iteration of "for listing in listings"
ProcessListing ==
    /\ pc = "process"
    /\ listing_idx <= Len(listings)
    /\ LET listing == listings[listing_idx] IN
       /\ all_current_ids' = all_current_ids \cup {listing.id}
       /\ IF IsNew(store, listing)
          THEN \E outcome \in NotifyNewListing(listing) :
                 /\ store' = StoreAfterNew(store, listing, outcome)
                 /\ notify_calls' = [notify_calls EXCEPT ![listing.id] = @ + 1]
                 /\ last_notify' = <<listing.id, outcome>>
                 /\ IF outcome = "raised"
                    THEN SearchFailed([cycle_stats EXCEPT !.new_listings = @ + 1])
                    ELSE /\ cycle_stats' = [cycle_stats EXCEPT !.new_listings = @ + 1]
                         /\ listing_idx' = listing_idx + 1
                         /\ UNCHANGED <<pc, search_idx, retry_count, listings,
                                        attempts>>
          ELSE \E existing \in GetListing(store, listing.id) :
                 /\ store' = AddListing(store, UpdatedListing(existing, listing, now))
                 /\ cycle_stats' = [cycle_stats EXCEPT !.updated_listings = @ + 1]
                 /\ listing_idx' = listing_idx + 1
                 /\ UNCHANGED <<pc, search_idx, retry_count, listings,
                                notify_calls, last_notify, attempts>>
    /\ UNCHANGED <<config, cycle_count, returned_ids, removed_count, now,
                   session, intervals, slept, study>>

\* the for loop over the listings is exhausted: searches_completed += 1
FinishSearch ==
    /\ pc = "process"
    /\ listing_idx > Len(listings)
    /\ cycle_stats' = [cycle_stats EXCEPT !.searches_completed = @ + 1]
    /\ NextSearch
    /\ UNCHANGED <<config, store, cycle_count,
                   all_current_ids, returned_ids, removed_count, now, notify_calls,
                   last_notify, session, intervals, slept, study>>

\* removed_count = await db.remove_old_listings(all_current_ids)
RemovePass ==
    /\ pc = "remove"
    /\ LET r == RemoveOldListings(store, all_current_ids) IN
       /\ store' = r.store
       /\ removed_count' = r.count
    /\ pc' = "sleep"
    /\ UNCHANGED <<config, cycle_count, search_idx, retry_count, listings,
                   listing_idx, all_current_ids, returned_ids, cycle_stats,
                   now, notify_calls, last_notify, attempts, session,
                   intervals, slept, study>>

\* min_interval = min(...); await asyncio.sleep(min_interval * 60)
Sleep ==
    /\ pc = "sleep"
    /\ slept' = MinInterval(intervals) * 60
    /\ now' = now + 1
    /\ pc' = "cycle_start"
    /\ UNCHANGED <<config, store, cycle_count, search_idx, retry_count,
                   listings, listing_idx, all_current_ids, returned_ids,
                   cycle_stats, removed_count, notify_calls, last_notify,
                   attempts, session, intervals, study>>

Next ==
    \/ StartCycle
    \/ SearchRaises
    \/ FetchFails
    \/ FetchReturns
    \/ ProcessListing
    \/ FinishSearch
    \/ RemovePass
    \/ Sleep

Spec == Init /\ [][Next]_vars

\* ------------------------------------------- main() from start to exit
\* The run of main() as a whole: the startup, the loop above with store
\* operations that can raise, a shutdown signal, and the finally branch.
\* A search returns at most one listing here.

\* the general sections a configuration directory can hold
IntervalGroups ==
    {[has |-> FALSE, minutes |-> 0], [has |-> TRUE, minutes |-> 5],
     [has |-> TRUE, minutes |-> 30]}

MaxGroups == 2

InitMain ==
    /\ config = [i \in 1..NumSearches |-> "T5"]
    /\ store = [i \in {} |-> 0]
    /\ pc = "load_configs"
    /\ LoopStart
    /\ scraper = "unbound"
    /\ close_calls = 0
    /\ warmup_requests = 0
    /\ exit_cause = "none"
    /\ intervals \in UNION {[1..n -> IntervalGroups] : n \in 1..MaxGroups}
    /\ slept = 0
    /\ inp = <<>>
    /\ out = <<>>
    /\ stage = "idle"

loop == <<cycle_count, search_idx, retry_count, listings, listing_idx,
          all_current_ids, returned_ids, cycle_stats, removed_count, now,
          notify_calls, last_notify, attempts>>

\* an exception that reaches "except Exception: ...; raise" of main(), or a
\* shutdown signal: control goes to the finally branch
LeaveLoop(cause) ==
    /\ pc' = "finally"
    /\ exit_cause' = cause
    /\ UNCHANGED <<config, store, loop, scraper, close_calls, warmup_requests,
                   intervals, slept, study>>

\* a startup step that succeeded
StartupStep(next_pc) ==
    /\ pc' = next_pc
    /\ UNCHANGED <<config, store, loop, session, intervals, slept, study>>

\* configs = await load_all_configs(): raises when no file, or no valid file,
\* is found
LoadConfigs ==
    /\ pc = "load_configs"
    /\ \/ StartupStep("init_db")
       \/ LeaveLoop("startup")

\* db = Database(); await db.initialize()
InitDatabase ==
    /\ pc = "init_db"
    /\ \/ StartupStep("init_scraper")
       \/ LeaveLoop("startup")

\* scraper = AutoScoutScraper(): the constructor opens the requests.Session;
\* main() never calls scraper.initialize(), the one place that requests the
\* base URL
InitScraper ==
    /\ pc = "init_scraper"
    /\ scraper' = "open"
    /\ pc' = "init_notifier"
    /\ UNCHANGED <<config, store, loop, close_calls, warmup_requests,
                   exit_cause, intervals, slept, study>>

\* notifier = TelegramNotifier(): raises ValueError without token or chat id
InitNotifier ==
    /\ pc = "init_notifier"
    /\ \/ StartupStep("cycle_start")
       \/ LeaveLoop("startup")

InLoop == pc \in {"cycle_start", "fetch", "process", "remove", "sleep"}

\* KeyboardInterrupt, or the cancellation asyncio.run delivers for it, while
\* the loop runs
ShutdownSignal ==
    /\ InLoop
    /\ LeaveLoop("signal")

\* get_listing or add_listing raises inside the per-search try: the id was
\* appended, the counter of the branch taken was incremented when it is
\* add_listing that raised, nothing was written, the except branch runs
ListingStoreRaises ==
    /\ pc = "process"
    /\ listing_idx <= Len(listings)
    /\ LET listing == listings[listing_idx] IN
       /\ all_current_ids' = all_current_ids \cup {listing.id}
       /\ \E op \in {"get_listing", "add_listing"} :
            SearchFailed(
              IF op = "get_listing" THEN cycle_stats
              ELSE IF IsNew(store, listing)
                   THEN [cycle_stats EXCEPT !.new_listings = @ + 1]
                   ELSE [cycle_stats EXCEPT !.updated_listings = @ + 1])
    /\ UNCHANGED <<config, store, cycle_count, returned_ids, removed_count,
                   now, notify_calls, last_notify, session, intervals, slept,
                   study>>

\* remove_old_listings raises (it returns before it opens the database when
\* the id list is empty): the call is outside the per-search try, the
\* exception reaches "except Exception: logger.error(...); raise"
RemoveRaises ==
    /\ pc = "remove"
    /\ all_current_ids # {}
    /\ LeaveLoop("error")

\* finally: await scraper.close(). With scraper unbound the statement raises
\* UnboundLocalError and nothing is closed
Finally ==
    /\ pc = "finally"
    /\ pc' = "exited"
    /\ IF scraper = "unbound"
       THEN UNCHANGED <<scraper, close_calls>>
       ELSE /\ scraper' = "closed"
            /\ close_calls' = close_calls + 1
    /\ UNCHANGED <<config, store, loop, warmup_requests, exit_cause,
                   intervals, slept, study>>

NextMain ==
    \/ LoadConfigs
    \/ InitDatabase
    \/ InitScraper
    \/ InitNotifier
    \/ StartCycle
    \/ SearchRaises
    \/ FetchFails
    \/ FetchReturnsFrom(SearchResultsUpTo(search_idx, now, 1))
    \/ ProcessListing
    \/ ListingStoreRaises
    \/ FinishSearch
    \/ RemovePass
    \/ RemoveRaises
    \/ Sleep
    \/ ShutdownSignal
    \/ Finally

SpecMain == InitMain /\ [][NextMain]_vars

\* ------------------------------------- search(): the partition of a page
\* What search() does with a response between the header total and the
\* extraction loop. A page is the header total (absent, or the number
\* parsed from listHeaderTitle), whether a div with a ListPage_main class
\* exists, and the listing-shaped elements in document order: each is an
\* article or an element of an alternative selector, lies inside the main
\* div or not, and has an ancestor div with a recommendation class or not.
\* The result is the sequence of positions of the elements handed to the
\* extraction loop.

MaxFragments == 3
MaxTotal == 3

Fragments == [tag : {"article", "item"}, in_main : BOOLEAN, rec : BOOLEAN]

Pages ==
    [header : BOOLEAN, total : 0..MaxTotal, main_content : BOOLEAN,
     fragments : UNION {[1..n -> Fragments] : n \in 0..MaxFragments}]

\* the positions of the set S in document order
InOrder(S) ==
    CHOOSE f \in [1..Cardinality(S) -> S] :
        \A i, j \in 1..Cardinality(S) : i < j => f[i] < f[j]

\* total_results: 0 when no listHeaderTitle, or no number in it, was found
TotalResults(page) == IF page.header THEN page.total ELSE 0

\* soup.find_all('article'), else the alternative selectors
ListingElements(page) ==
    LET articles ==
            {k \in DOMAIN page.fragments : page.fragments[k].tag = "article"}
        items ==
            {k \in DOMAIN page.fragments : page.fragments[k].tag = "item"}
    IN  IF articles # {} THEN InOrder(articles) ELSE InOrder(items)

\* main_listings before the fail-open: the articles inside the main div
\* when there is one, else the elements without a recommendation ancestor
Classified(page) ==
    LET elements ==
            {ListingElements(page)[j] : j \in DOMAIN ListingElements(page)}
    IN  IF page.main_content
        THEN InOrder({k \in DOMAIN page.fragments :
                        /\ page.fragments[k].tag = "article"
                        /\ page.fragments[k].in_main})
        ELSE InOrder({k \in elements : ~page.fragments[k].rec})

FailOpen_Never(page) == Classified(page)

\* "if not main_listings and total_results > 0: main_listings =
\* listing_elements"
FailOpen(page) ==
    IF Classified(page) = <<>> /\ TotalResults(page) > 0
    THEN ListingElements(page)
    ELSE Classified(page)

Truncate_Last(main_listings, total_results) ==
    IF total_results > 0 /\ Len(main_listings) > total_results
    THEN SubSeq(main_listings, Len(main_listings) - total_results + 1,
                Len(main_listings))
    ELSE main_listings

\* main_listings[:total_results] when the header reports fewer
Truncate(main_listings, total_results) ==
    IF total_results > 0 /\ Len(main_listings) > total_results
    THEN SubSeq(main_listings, 1, total_results)
    ELSE main_listings

Partition(page) ==
    IF page.header /\ page.total = 0 THEN <<>>
    ELSE IF ListingElements(page) = <<>> THEN <<>>
    ELSE Truncate(FailOpen(page), TotalResults(page))

\* the variables of main() while one response is studied
MainAtFetch ==
    /\ config = [i \in 1..NumSearches |-> "T5"]
    /\ store = [i \in {} |-> 0]
    /\ pc = "fetch"
    /\ LoopStart
    /\ scraper = "open"
    /\ close_calls = 0
    /\ warmup_requests = 0
    /\ exit_cause = "none"
    /\ intervals = DefaultIntervals
    /\ slept = 0

main_state == <<config, store, pc, loop, session, intervals, slept>>

InitPartition ==
    /\ MainAtFetch
    /\ inp \in Pages
    /\ out = <<>>
    /\ stage = "page"

DoPartition ==
    /\ stage = "page"
    /\ out' = Partition(inp)
    /\ stage' = "partitioned"
    /\ UNCHANGED <<inp, main_state>>

NextPartition == DoPartition

SpecPartition == InitPartition /\ [][NextPartition]_vars

\* self.base_url
base_url == "https://www.autoscout24.de"

\* ------------------------------------------------------ build_search_url
\* A search of a configuration file and the countries of its general
\* section, as main() forwards them to scraper.search and search to
\* build_search_url. A filter is a record: state says whether the key is
\* absent, null or set, v is its value; the bound of a range that is
\* missing, null or 0 is 0 (all three are false in "if ....get('min')").
\* The URL is the path and the sequence of key=value parameters that
\* '&'.join puts together.

NoRange == [state |-> "absent", min |-> 0, max |-> 0]
NoText == [state |-> "absent", v |-> ""]
NoNumber == [state |-> "absent", v |-> 0]
NoList == [state |-> "absent", v |-> <<>>]

Range(lo, hi) == [state |-> "set", min |-> lo, max |-> hi]
Text(t) == [state |-> "set", v |-> t]
Number(n) == [state |-> "set", v |-> n]
List(l) == [state |-> "set", v |-> l]

CountryLists ==
    {NoList, List(<<>>)} \cup
    {List(l) : l \in {<<"AT", "DE">>, <<"DE", "AT">>, <<"DE", "XX">>,
                      <<"XX">>}}

SearchConfigs ==
    [countries : CountryLists,
     make : {"Volkswagen"},
     model : {"T5"},
     price_range : {NoRange, Range(1000, 0), Range(1000, 5000)},
     year_range : {NoRange, Range(2010, 2020)},
     kilometers_range : {NoRange, Range(50000, 100000)},
     max_kilometers : {NoNumber, [state |-> "null", v |-> 0], Number(0),
                       Number(150000)},
     body_type : {NoText, Text("5")},
     seats : {NoRange, Range(4, 7)},
     fuel_type : {NoText, Text("D")},
     transmission : {NoText, Text("M")},
     doors : {NoRange, Range(4, 5)},
     equipment : {NoList, List(<<"5", "23">>)},
     color : {NoText, Text("11")},
     power_range : {NoRange, Range(75, 150)},
     zip : {NoText, Text("10115")},
     zipr : {NoNumber, Number(50)}]

\* "'k' in search and search['k']": forwarded when the value is true
IfTrue(filter, none) ==
    IF filter.state = "set" /\ filter # [none EXCEPT !.state = "set"]
    THEN filter ELSE none

\* "'k' in search and search['k'] is not None"
IfNotNone(filter, none) == IF filter.state = "set" THEN filter ELSE none

\* search_params of main(), with make and models added by search()
SearchParams(search) ==
    [countries |-> IF search.countries.state = "absent"
                   THEN List(<<"DE">>) ELSE search.countries,
     make |-> search.make,
     models |-> <<search.model>>,
     price_range |-> IfTrue(search.price_range, NoRange),
     year_range |-> IfTrue(search.year_range, NoRange),
     kilometers_range |-> IfTrue(search.kilometers_range, NoRange),
     max_kilometers |-> IfNotNone(search.max_kilometers, NoNumber),
     body_type |-> IfNotNone(search.body_type, NoText),
     seats |-> IfTrue(search.seats, NoRange),
     fuel_type |-> IfTrue(search.fuel_type, NoText),
     transmission |-> IfTrue(search.transmission, NoText),
     doors |-> IfTrue(search.doors, NoRange),
     equipment |-> IfTrue(search.equipment, NoList),
     color |-> IfNotNone(search.color, NoText),
     power_range |-> IfTrue(search.power_range, NoRange),
     zip |-> IfTrue(search.zip, NoText),
     zipr |-> IfNotNone(search.zipr, NoNumber)]

\* str.lower()
Lower(t) ==
    CASE t = "Volkswagen" -> "volkswagen"
      [] t = "T5" -> "t5"
      [] t = "VolkswagenT5" -> "volkswagent5"
      [] t = "Camper" -> "camper"
      [] OTHER -> t

\* the if/elif chain over the country names; an unknown name adds nothing
CountryCode(country) ==
    CASE country = "AT" -> <<"A">>
      [] country = "DE" -> <<"D">>
      [] country = "BE" -> <<"B">>
      [] country = "ES" -> <<"E">>
      [] country = "FR" -> <<"F">>
      [] country = "IT" -> <<"I">>
      [] country = "LU" -> <<"L">>
      [] country = "NL" -> <<"NL">>
      [] OTHER -> <<>>

RECURSIVE MappedCodes(_)
MappedCodes(countries) ==
    IF countries = <<>> THEN <<>>
    ELSE CountryCode(Head(countries)) \o MappedCodes(Tail(countries))

AllCountryCodes == <<"D", "A", "B", "E", "F", "I", "L", "NL">>

\* country_codes: all of them when none was mapped
CountryCodes(countries) ==
    IF MappedCodes(countries) = <<>> THEN AllCountryCodes
    ELSE MappedCodes(countries)

\* ('%2C').join(country_codes)
RECURSIVE JoinCodes(_)
JoinCodes(codes) ==
    IF codes = <<>> THEN ""
    ELSE IF Len(codes) = 1 THEN codes[1]
    ELSE codes[1] \o "%2C" \o JoinCodes(Tail(codes))

Param(key, value) == [key |-> key, value |-> value]

\* "if params.get(k): query_params.append(f'key={params[k]}')" for a number
NumberParam(key, n) == IF n # 0 THEN <<Param(key, ToString(n))>> ELSE <<>>

\* the same for a string
TextParam(key, t) == IF t # "" THEN <<Param(key, t)>> ELSE <<>>

\* "for eq in params['equipment']"
RECURSIVE EquipmentParams(_)
EquipmentParams(equipment) ==
    IF equipment = <<>> THEN <<>>
    ELSE <<Param("eq", Head(equipment))>> \o EquipmentParams(Tail(equipment))

\* the model part of the path for the one model that search() passes
ModelPart(models) ==
    IF Lower(models[1]) \in {"t6", "t5", "t4", "t3"}
    THEN Lower(models[1]) \o "-(alle)"
    ELSE Lower(models[1])

SortParam_WhenPriced(params) ==
    IF params.price_range.state = "set"
    THEN <<Param("sort", "standard")>> ELSE <<>>

\* query_params.append("sort=standard")
SortParam(params) == <<Param("sort", "standard")>>

BuildSearchUrl(params) ==
    [path |-> base_url \o "/lst/" \o Lower(params.make) \o "/"
                \o ModelPart(params.models),
     query |->
        <<Param("atype", "C"),
          Param("cy", JoinCodes(CountryCodes(params.countries.v))),
          Param("damaged_listing", "exclude"),
          Param("desc", "0")>>
        \o NumberParam("fregfrom", params.year_range.min)
        \o NumberParam("fregto", params.year_range.max)
        \o NumberParam("kmto", params.max_kilometers.v)
        \o <<Param("ocs_listing", "include"), Param("powertype", "kw")>>
        \o NumberParam("pricefrom", params.price_range.min)
        \o NumberParam("priceto", params.price_range.max)
        \o SortParam(params)
        \o <<Param("source", "homepage_search-mask"),
             Param("ustate", "N%2CU")>>
        \o TextParam("body", params.body_type.v)
        \o NumberParam("seatsfrom", params.seats.min)
        \o NumberParam("seatsto", params.seats.max)
        \o TextParam("fuel", params.fuel_type.v)
        \o TextParam("gear", params.transmission.v)
        \o NumberParam("doorfrom", params.doors.min)
        \o NumberParam("doorto", params.doors.max)
        \o EquipmentParams(params.equipment.v)
        \o TextParam("color", params.color.v)
        \o TextParam("zip", params.zip.v)
        \o NumberParam("zipr", params.zipr.v)]

InitUrl ==
    /\ MainAtFetch
    /\ inp \in SearchConfigs
    /\ out = <<>>
    /\ stage = "search"

\* scraper.search builds the URL of the search
BuildUrl ==
    /\ stage = "search"
    /\ out' = <<BuildSearchUrl(SearchParams(inp))>>
    /\ stage' = "built"
    /\ UNCHANGED <<inp, main_state>>

\* the next cycle builds it again from the same configuration
BuildUrlAgain ==
    /\ stage = "built"
    /\ out' = Append(out, BuildSearchUrl(SearchParams(inp)))
    /\ stage' = "rebuilt"
    /\ UNCHANGED <<inp, main_state>>

NextUrl ==
    \/ BuildUrl
    \/ BuildUrlAgain

SpecUrl == InitUrl /\ [][NextUrl]_vars

\* ------------------------------------------------------- load_all_configs
\* The config directory is the sequence of its *.yaml files in the order
\* of glob. A file is valid, cannot be parsed, has no searches key, has no
\* general key, or is the default_ template.

MaxFiles == 3

FileKinds == {"valid", "unparsable", "no_searches", "no_general", "template"}

Directories == UNION {[1..n -> FileKinds] : n \in 0..MaxFiles}

\* the files whose name does not start with default_
ConfigFiles(files) ==
    LET NotTemplate(f) == f # "template" IN SelectSeq(files, NotTemplate)

\* the files that the try of the loop appends: yaml.safe_load succeeded and
\* config['searches'] exists; every exception skips the file
LoadedConfigs(config_files) ==
    LET Loads(f) == f \in {"valid", "no_general"}
    IN  SelectSeq(config_files, Loads)

\* load_all_configs: FileNotFoundError, ValueError or the configs
LoadAllConfigs(files) ==
    IF ConfigFiles(files) = <<>>
    THEN [raised |-> "FileNotFoundError", configs |-> <<>>]
    ELSE IF LoadedConfigs(ConfigFiles(files)) = <<>>
    THEN [raised |-> "ValueError", configs |-> <<>>]
    ELSE [raised |-> "", configs |-> LoadedConfigs(ConfigFiles(files))]

InitConfig ==
    /\ MainAtFetch
    /\ inp \in Directories
    /\ out = [raised |-> "", configs |-> <<>>]
    /\ stage = "directory"

\* configs = await load_all_configs() in main()
LoadDirectory ==
    /\ stage = "directory"
    /\ out' = LoadAllConfigs(inp)
    /\ stage' = IF out'.raised = "" THEN "loaded" ELSE "raised"
    /\ UNCHANGED <<inp, main_state>>

\* database, scraper and notifier are set up and "while True" is entered
EnterLoop ==
    /\ stage = "loaded"
    /\ stage' = "loop"
    /\ UNCHANGED <<inp, out, main_state>>

NextConfig ==
    \/ LoadDirectory
    \/ EnterLoop

SpecConfig == InitConfig /\ [][NextConfig]_vars

\* ------------------------------------------------- the listings table
\* The table as the set of its rows, written by add_listing,
\* remove_old_listings and clear_all_listings in any order. A row is the id
\* and the columns that tell two versions of a listing apart.

Rows == [id : Ids, price : Prices, first_seen : 0..1, last_seen : 0..1]

InsertRow_NoKey(table, row) == table \cup {row}

\* INSERT OR REPLACE with id TEXT PRIMARY KEY: the row of the same id is
\* deleted before the new one is inserted
InsertRow(table, row) == {r \in table : r.id # row.id} \cup {row}

\* DELETE FROM listings WHERE id NOT IN (...), nothing for an empty list
DeleteNotIn(table, current_ids) ==
    IF current_ids = {} THEN table
    ELSE {r \in table : r.id \in current_ids}

InitStore ==
    /\ MainAtFetch
    /\ inp = <<>>
    /\ out = {}
    /\ stage = "opened"

StoreAdd ==
    /\ \E row \in Rows :
         /\ inp' = row
         /\ out' = InsertRow(out, row)
    /\ stage' = "added"
    /\ UNCHANGED main_state

StoreRemoveOld ==
    /\ \E current_ids \in SUBSET Ids :
         /\ inp' = current_ids
         /\ out' = DeleteNotIn(out, current_ids)
    /\ stage' = "removed"
    /\ UNCHANGED main_state

\* clear_all_listings: DELETE FROM listings
StoreClear ==
    /\ inp' = {}
    /\ out' = {}
    /\ stage' = "cleared"
    /\ UNCHANGED main_state

NextStore ==
    \/ StoreAdd
    \/ StoreRemoveOld
    \/ StoreClear

SpecStore == InitStore /\ [][NextStore]_vars

\* ------------------------------------ _format_listing_message: the title
\* A title is its words in order, whether some whitespace between or around
\* them is more than one space, and whether the last word carries
\* asterisks. The make is Volkswagen and the model T5. The cleaned title is
\* the sequence of the words that are left.

MaxWords == 3

Words == {"Volkswagen", "volkswagen", "T5", "VolkswagenT5", "Camper"}

TitleInputs ==
    [words : UNION {[1..n -> Words] : n \in 0..MaxWords},
     spaces : BOOLEAN, markers : BOOLEAN]

\* without a word there is no asterisk
ListingTitles == {t \in TitleInputs : t.words = <<>> => ~t.markers}

\* re.sub(f"^{make}\\s*{model}\\s*", "", clean_title, flags=re.IGNORECASE)
SubMakeModel(words) ==
    IF words # <<>> /\ Lower(words[1]) = "volkswagent5" THEN Tail(words)
    ELSE IF Len(words) >= 2 /\ Lower(words[1]) = "volkswagen"
            /\ Lower(words[2]) = "t5"
    THEN Tail(Tail(words))
    ELSE words

\* re.sub(f"^{make}{model}\\s*", ...)
SubMakeModelJoined(words) ==
    IF words # <<>> /\ Lower(words[1]) = "volkswagent5" THEN Tail(words)
    ELSE words

\* re.sub(f"^{make}\\s*", ...): of VolkswagenT5 the T5 is left
SubMake(words) ==
    IF words # <<>> /\ Lower(words[1]) = "volkswagen" THEN Tail(words)
    ELSE IF words # <<>> /\ Lower(words[1]) = "volkswagent5"
    THEN <<"T5">> \o Tail(words)
    ELSE words

\* "clean_title != listing.title": the comparison is with the title of
\* the listing, which the whitespace collapse and the removal of the
\* asterisks may already have changed
DiffersFromTitle(title, clean_words) ==
    title.spaces \/ title.markers \/ clean_words # title.words

\* the loop over the three patterns with its break
StripPrefix(title) ==
    LET c1 == SubMakeModel(title.words)
        c2 == SubMakeModelJoined(c1)
        c3 == SubMake(c2)
    IN  IF DiffersFromTitle(title, c1) THEN c1
        ELSE IF DiffersFromTitle(title, c2) THEN c2
        ELSE c3

\* title_str: the make and the model for a title that is blank, or empty
\* after the cleanup
TitleStr(title) ==
    IF title.words = <<>> \/ StripPrefix(title) = <<>>
    THEN <<"Volkswagen", "T5">>
    ELSE StripPrefix(title)

InitTitle ==
    /\ MainAtFetch
    /\ inp \in ListingTitles
    /\ out = <<>>
    /\ stage = "title"

CleanTitle ==
    /\ stage = "title"
    /\ out' = TitleStr(inp)
    /\ stage' = "cleaned"
    /\ UNCHANGED <<inp, main_state>>

NextTitle == CleanTitle

SpecTitle == InitTitle /\ [][NextTitle]_vars

\* ------------------------------------------------ extract_listing_details
\* A fragment is the id attribute ("" when the element has none), the href
\* of its first link, the three data- attributes, and the embedded JSON values
\* that the regular expressions of the function locate in str(element):
\* the vehicleDetails array, the tracking object and the priceFormatted of
\* the price object. Attribute and JSON values are strings, converted by
\* the tables below as int() and the regular expressions convert them. An
\* icon name holds at most one of 'mileage' and 'calendar'.

Absent == "<absent>"

\* a JSON value that is a number where the function expects a string
NotAString == "<number>"

MaxDetails == 2

\* int(s): ok is FALSE where int raises ValueError
IntOf(s) ==
    CASE s = "0" -> [ok |-> TRUE, val |-> 0]
      [] s = "-5" -> [ok |-> TRUE, val |-> 0 - 5]
      [] s = "-7" -> [ok |-> TRUE, val |-> 0 - 7]
      [] s = "100" -> [ok |-> TRUE, val |-> 100]
      [] s = "300" -> [ok |-> TRUE, val |-> 300]
      [] s = "70000" -> [ok |-> TRUE, val |-> 70000]
      [] OTHER -> [ok |-> FALSE, val |-> 0]

\* int(re.sub(r'[^\d]', '', s)): ok is FALSE where no digit is left
DigitsOnly(s) ==
    CASE s = "50.000 km" -> [ok |-> TRUE, val |-> 50000]
      [] s = "03/2015" -> [ok |-> TRUE, val |-> 32015]
      [] s = "0 km" -> [ok |-> TRUE, val |-> 0]
      [] s = "15.990,-" -> [ok |-> TRUE, val |-> 15990]
      [] OTHER -> [ok |-> FALSE, val |-> 0]

\* re.search(r'(\d{2})-(\d{4})', s), group 2
YearDash(s) ==
    CASE s = "03-2016" -> [ok |-> TRUE, val |-> 2016]
      [] s = "06-2012" -> [ok |-> TRUE, val |-> 2012]
      [] OTHER -> [ok |-> FALSE, val |-> 0]

\* re.search(r'(\d{2})/(\d{4})', s), group 2
YearSlash(s) ==
    CASE s = "03/2015" -> [ok |-> TRUE, val |-> 2015]
      [] OTHER -> [ok |-> FALSE, val |-> 0]

\* re.search(r'(\d{4})', s), group 1
Year4(s) ==
    CASE s = "03-2016" -> [ok |-> TRUE, val |-> 2016]
      [] s = "06-2012" -> [ok |-> TRUE, val |-> 2012]
      [] s = "03/2015" -> [ok |-> TRUE, val |-> 2015]
      [] OTHER -> [ok |-> FALSE, val |-> 0]

Details ==
    [iconName : {"mileage_road", "calendar", "gas_pump"},
     data : {"50.000 km", "03/2015", "0 km", NotAString}]

NoTracking ==
    [present |-> FALSE, firstRegistration |-> Absent, mileage |-> Absent,
     price |-> Absent]

Trackings ==
    {NoTracking} \cup
    [present : {TRUE}, firstRegistration : {Absent, "06-2012", NotAString},
     mileage : {Absent, "70000", "-7"}, price : {Absent, "300"}]

ElementInputs ==
    [id : {"", "A"},
     href : {Absent, "/angebote/B", "https://www.autoscout24.de/angebote/B"},
     data_price : {Absent, "0", "-5", "100"},
     data_mileage : {Absent, "x", "100"},
     data_first_registration : {Absent, "03-2016", "new"},
     has_details : BOOLEAN,
     vehicleDetails : UNION {[1..n -> Details] : n \in 0..MaxDetails},
     tracking : Trackings,
     priceFormatted : {Absent, "15.990,-"}]

\* the elements of the study: without the array there are no entries
Elements == {e \in ElementInputs : ~e.has_details => e.vehicleDetails = <<>>}

\* the data attributes: int() for mileage and price, the two patterns for
\* the registration; a failed conversion leaves the 0
FromAttributes(element) ==
    [kilometers |->
        IF element.data_mileage # Absent /\ IntOf(element.data_mileage).ok
        THEN IntOf(element.data_mileage).val ELSE 0,
     year |->
        IF element.data_first_registration = Absent THEN 0
        ELSE IF YearDash(element.data_first_registration).ok
        THEN YearDash(element.data_first_registration).val
        ELSE IF Year4(element.data_first_registration).ok
        THEN Year4(element.data_first_registration).val
        ELSE 0,
     price |->
        IF element.data_price # Absent /\ IntOf(element.data_price).ok
        THEN IntOf(element.data_price).val ELSE 0,
     raised |-> FALSE]

AnyZero(v) == v.kilometers = 0 \/ v.year = 0 \/ v.price = 0

\* one iteration of "for detail in vehicle_details"; re.sub and re.search
\* on a data value that is not a string raise TypeError, which the
\* "except json.JSONDecodeError" around the loop does not catch
FromDetail(v, detail) ==
    IF v.raised THEN v
    ELSE IF detail.iconName = "mileage_road" /\ v.kilometers = 0
    THEN IF detail.data = NotAString THEN [v EXCEPT !.raised = TRUE]
         ELSE IF DigitsOnly(detail.data).ok
         THEN [v EXCEPT !.kilometers = DigitsOnly(detail.data).val]
         ELSE v
    ELSE IF detail.iconName = "calendar" /\ v.year = 0
    THEN IF detail.data = NotAString THEN [v EXCEPT !.raised = TRUE]
         ELSE IF YearSlash(detail.data).ok
         THEN [v EXCEPT !.year = YearSlash(detail.data).val]
         ELSE IF Year4(detail.data).ok
         THEN [v EXCEPT !.year = Year4(detail.data).val]
         ELSE v
    ELSE v

RECURSIVE FromVehicleDetails(_, _)
FromVehicleDetails(v, details) ==
    IF details = <<>> THEN v
    ELSE FromVehicleDetails(FromDetail(v, Head(details)), Tail(details))

FromTracking_Overwrite(v, tracking_data) ==
    LET y == IF tracking_data.firstRegistration # Absent /\ v.year = 0
                  /\ YearDash(tracking_data.firstRegistration).ok
             THEN YearDash(tracking_data.firstRegistration).val ELSE v.year
        k == IF tracking_data.mileage # Absent /\ v.kilometers = 0
                  /\ IntOf(tracking_data.mileage).ok
             THEN IntOf(tracking_data.mileage).val ELSE v.kilometers
        p == IF tracking_data.price # Absent /\ IntOf(tracking_data.price).ok
             THEN IntOf(tracking_data.price).val ELSE v.price
    IN  IF tracking_data.firstRegistration = NotAString /\ v.year = 0
        THEN [v EXCEPT !.raised = TRUE]
        ELSE [kilometers |-> k, year |-> y, price |-> p, raised |-> FALSE]

\* the tracking object: each field only "if ... and <field> == 0";
\* re.search on a firstRegistration that is not a string raises TypeError
FromTracking(v, tracking_data) ==
    LET y == IF tracking_data.firstRegistration # Absent /\ v.year = 0
                  /\ YearDash(tracking_data.firstRegistration).ok
             THEN YearDash(tracking_data.firstRegistration).val ELSE v.year
        k == IF tracking_data.mileage # Absent /\ v.kilometers = 0
                  /\ IntOf(tracking_data.mileage).ok
             THEN IntOf(tracking_data.mileage).val ELSE v.kilometers
        p == IF tracking_data.price # Absent /\ v.price = 0
                  /\ IntOf(tracking_data.price).ok
             THEN IntOf(tracking_data.price).val ELSE v.price
    IN  IF tracking_data.firstRegistration = NotAString /\ v.year = 0
        THEN [v EXCEPT !.raised = TRUE]
        ELSE [kilometers |-> k, year |-> y, price |-> p, raised |-> FALSE]

\* the price object
FromPriceObject(v, price_formatted) ==
    IF price_formatted # Absent /\ DigitsOnly(price_formatted).ok
    THEN [v EXCEPT !.price = DigitsOnly(price_formatted).val]
    ELSE v

\* url.split('/')[-1]
LastSegment(url) ==
    CASE url = "/angebote/B" -> "B"
      [] url = "https://www.autoscout24.de/angebote/B" -> "B"
      [] OTHER -> url

\* url.startswith('/')
StartsWithSlash(url) == url = "/angebote/B"

\* url: the href of the first link, '' without one
Url(element) == IF element.href = Absent THEN "" ELSE element.href

\* listing_id: the id attribute, else the end of the link
ListingId(element) ==
    IF element.id # "" THEN element.id
    ELSE IF element.href # Absent THEN LastSegment(element.href)
    ELSE ""

\* full_url
FullUrl(url) == IF StartsWithSlash(url) THEN base_url \o url ELSE url

NoListing ==
    [some |-> FALSE, id |-> "", url |-> "", price |-> 0, year |-> 0,
     kilometers |-> 0,
     first_seen |-> 0, last_seen |-> 0]

\* extract_listing_details with the two readings t1, t2 of datetime.now();
\* "except Exception: ...; return None" answers every exception
ExtractListingDetails(element, t1, t2) ==
    LET v1 == FromAttributes(element)
        v2 == IF AnyZero(v1) /\ element.has_details
              THEN FromVehicleDetails(v1, element.vehicleDetails) ELSE v1
        v3 == IF ~v2.raised /\ AnyZero(v2) /\ element.tracking.present
              THEN FromTracking(v2, element.tracking) ELSE v2
        v4 == IF ~v3.raised /\ v3.price = 0
              THEN FromPriceObject(v3, element.priceFormatted) ELSE v3
    IN  IF v4.raised \/ ListingId(element) = "" THEN NoListing
        ELSE [some |-> TRUE, id |-> ListingId(element),
              url |-> FullUrl(Url(element)), price |-> v4.price,
              year |-> v4.year, kilometers |-> v4.kilometers,
              first_seen |-> t1, last_seen |-> t2]

InitExtract ==
    /\ MainAtFetch
    /\ inp \in Elements
    /\ out = NoListing
    /\ stage = "element"

\* the clock does not go back between the two readings
DoExtract ==
    /\ stage = "element"
    /\ \E d \in 0..1 : out' = ExtractListingDetails(inp, now, now + d)
    /\ stage' = "extracted"
    /\ UNCHANGED <<inp, main_state>>

NextExtract == DoExtract

SpecExtract == InitExtract /\ [][NextExtract]_vars

\* ------------------------------------------------------------ properties
\* the state in which the next step is one iteration of the per-listing loop
AtListing == pc = "process" /\ listing_idx <= Len(listings)

\* C1: when the removal pass runs over an empty all_current_ids it deletes
\* no row and reports 0 removed, whatever the store contains
C1_EmptyCycleSafety ==
    [][(pc = "remove" /\ all_current_ids = {})
         => (store' = store /\ removed_count' = 0)]_vars

\* an empty cycle has run its removal pass over a non-empty store
C1_Witness ==
    /\ pc = "sleep"
    /\ all_current_ids = {}
    /\ DOMAIN store # {}
    /\ removed_count = 0

\* C2: over a non-empty all_current_ids the removal pass deletes exactly the
\* rows whose id is not in it, leaves the other rows as they were and returns
\* the number of rows deleted
C2_RemovalCorrectness ==
    [][(pc = "remove" /\ all_current_ids # {})
         => /\ DOMAIN store' = DOMAIN store \cap all_current_ids
            /\ \A i \in DOMAIN store' : store'[i] = store[i]
            /\ removed_count' = Cardinality(DOMAIN store \ all_current_ids)]_vars

\* a removal pass over a non-empty id set has deleted one row and kept another
C2_Witness ==
    /\ pc = "sleep"
    /\ all_current_ids # {}
    /\ removed_count = 1
    /\ DOMAIN store # {}
    /\ DOMAIN store \subseteq all_current_ids

\* C3: a stored listing whose id some search of the cycle returned is not
\* deleted by that cycle's removal pass
C3_ReturnedIdsSurvive ==
    [][pc = "remove"
         => \A i \in returned_ids \cap DOMAIN store : i \in DOMAIN store']_vars

\* C4: first_seen of a row that stays in the store never changes, an update
\* sets last_seen to the current time, and first_seen <= last_seen in every row
C4_FirstSeenImmutable ==
    [][/\ \A i \in DOMAIN store \cap DOMAIN store' :
             store'[i].first_seen = store[i].first_seen
       /\ (AtListing /\ listings[listing_idx].id \in DOMAIN store)
             => store'[listings[listing_idx].id].last_seen = Adapt(DateTimeNow(now))
       /\ \A i \in DOMAIN store' :
             store'[i].first_seen.t <= store'[i].last_seen.t]_vars

\* a row created in an earlier cycle has been refreshed in this one
C4_Witness ==
    /\ cycle_stats.updated_listings > 0
    /\ \E i \in DOMAIN store \cap all_current_ids :
          /\ store[i].first_seen.t < store[i].last_seen.t
          /\ store[i].last_seen.t = now

\* C5: a listing whose id is not stored is counted new, inserted and notified
\* by exactly one call; a listing whose id is stored is counted updated and
\* no notification call is made, also when its price changed
C5_NewVsUpdated ==
    [][AtListing =>
         LET l == listings[listing_idx] IN
         IF l.id \notin DOMAIN store
         THEN /\ cycle_stats'.new_listings = cycle_stats.new_listings + 1
              /\ cycle_stats'.updated_listings = cycle_stats.updated_listings
              /\ l.id \in DOMAIN store'
              /\ notify_calls' = [notify_calls EXCEPT ![l.id] = @ + 1]
         ELSE /\ cycle_stats'.updated_listings = cycle_stats.updated_listings + 1
              /\ cycle_stats'.new_listings = cycle_stats.new_listings
              /\ notify_calls' = notify_calls]_vars

\* a listing notified once in an earlier cycle has just been processed again,
\* with a price other than the stored one, and counted updated
C5_Witness ==
    /\ pc = "process"
    /\ listing_idx = 2
    /\ cycle_count >= 2
    /\ cycle_stats.new_listings = 0
    /\ cycle_stats.updated_listings >= 1
    /\ listings[1].id \in DOMAIN store
    /\ listings[1].price # store[listings[1].id].price
    /\ notify_calls[listings[1].id] = 1

\* C6: notify_new_listing is called at most once for any listing id
C6_AtMostOneNotification ==
    \A i \in Ids : notify_calls[i] <= 1

\* C7: processing a listing whose id is stored overwrites the stored price and
\* title with the scraped ones and sets last_seen to the current time
C7_UpdateOverwrites ==
    [][(AtListing /\ listings[listing_idx].id \in DOMAIN store) =>
         LET l == listings[listing_idx] IN
         /\ store'[l.id].price = l.price
         /\ store'[l.id].title = l.title
         /\ store'[l.id].last_seen = Adapt(DateTimeNow(now))]_vars

\* C8: whenever notify_new_listing is called for a listing, the listing is in
\* the store after the step whatever the call did; it survives that cycle's
\* removal pass; and when it is processed again while stored after a failed
\* notification it is counted updated and not notified
C8_PersistBeforeNotify ==
    [][/\ AtListing =>
            LET l == listings[listing_idx] IN
            /\ notify_calls'[l.id] # notify_calls[l.id]
                  => /\ l.id \in DOMAIN store'
                     /\ store'[l.id].price = l.price
            /\ (l.id \in DOMAIN store /\ last_notify \in {<<l.id, "failed">>, <<l.id, "raised">>})
                  => /\ notify_calls' = notify_calls
                     /\ cycle_stats'.updated_listings = cycle_stats.updated_listings + 1
                     /\ cycle_stats'.new_listings = cycle_stats.new_listings
       /\ (pc = "remove" /\ last_notify # <<>> /\ last_notify[1] \in all_current_ids)
            => (last_notify[1] \in DOMAIN store => last_notify[1] \in DOMAIN store')]_vars

\* a listing whose only notification failed to be delivered is stored and has
\* been processed as updated in a later cycle
C8_Witness ==
    /\ cycle_count >= 2
    /\ last_notify # <<>>
    /\ last_notify[2] = "failed"
    /\ last_notify[1] \in all_current_ids
    /\ last_notify[1] \in DOMAIN store
    /\ notify_calls[last_notify[1]] = 1
    /\ cycle_stats.new_listings = 0
    /\ cycle_stats.updated_listings >= 1

\* C9: no notify_new_listing call raises into the loop, so every iteration of
\* the per-listing loop is followed by the next one
C9_NotifierNeverRaises ==
    [][AtListing
         => /\ last_notify' # <<listings[listing_idx].id, "raised">>
            /\ pc' = "process"
            /\ listing_idx' = listing_idx + 1]_vars

\* C12: one call of search sends at most 3 requests; a failed first or second
\* attempt is followed by another attempt of the same search; a failed third
\* attempt makes search return the empty list without a failure being counted;
\* a successful attempt ends the retrying; every step of the retry loop sends
\* one more request, so the loop ends
C12_BoundedRetry ==
    [][/\ attempts' <= 3
       /\ (pc = "fetch" /\ retry_count' = retry_count + 1 /\ retry_count < 2)
            => /\ pc' = "fetch"
               /\ search_idx' = search_idx
               /\ attempts' = attempts + 1
       /\ (pc = "fetch" /\ retry_count' = retry_count + 1 /\ retry_count >= 2)
            => /\ attempts' = 3
               /\ pc' = "process"
               /\ listings' = <<>>
               /\ cycle_stats' = cycle_stats
       /\ (pc = "fetch" /\ search_idx' = search_idx /\ retry_count' = retry_count)
            => /\ pc' = "process"
               /\ attempts' = attempts + 1
       /\ (pc = "fetch" /\ pc' = "fetch" /\ search_idx' = search_idx)
            => attempts' = attempts + 1]_vars

\* a search has returned the empty list after three failed requests
C12_Witness ==
    /\ pc = "process"
    /\ retry_count = 3
    /\ attempts = 3
    /\ listings = <<>>
    /\ cycle_stats.searches_failed = 0

\* C10: a search that fails (it raises, or the notifier raises while its
\* listings are processed) is counted and followed by the next search or, after
\* the last one, by the removal pass; a fetch that exhausts its retries gives
\* an empty result; every search of the cycle has run when the removal pass and
\* the sleep are reached
C10_SearchFailureIsolated ==
    [][/\ cycle_stats'.searches_failed = cycle_stats.searches_failed + 1
            => /\ search_idx' = search_idx + 1
               /\ pc' = IF search_idx < NumSearches THEN "fetch" ELSE "remove"
       /\ (pc = "fetch" /\ retry_count' = max_retries)
            => (pc' = "process" /\ listings' = <<>>)
       /\ (pc = "process" /\ listings = <<>>)
            => /\ cycle_stats'.searches_completed = cycle_stats.searches_completed + 1
               /\ pc' = IF search_idx < NumSearches THEN "fetch" ELSE "remove"
       /\ pc' \in {"remove", "sleep"}
            => cycle_stats'.searches_completed + cycle_stats'.searches_failed
                 = NumSearches]_vars

\* a cycle in which one search failed has run its other searches, which
\* observed a listing, and has reached the sleep
C10_Witness ==
    /\ pc = "sleep"
    /\ cycle_stats.searches_failed = 1
    /\ cycle_stats.searches_completed = NumSearches - 1
    /\ all_current_ids # {}

\* C11: an error raised by a store operation does not abort the cycle: from
\* the removal pass the loop goes on to the sleep unless a shutdown signal
\* arrives, and from the processing of a listing it stays in the loop
C11_StoreErrorsDoNotAbort ==
    [][(pc \in {"process", "remove"} /\ exit_cause' # "signal")
         => pc' \in {"fetch", "process", "remove", "sleep"}]_vars

\* C13: a search request is sent only after exactly one warm-up request to
\* the base URL
C13_WarmUpBeforeSearch == attempts > 0 => warmup_requests = 1

\* C14: on every way out of main(), startup failure included, the scraper
\* session was closed exactly once
C14_ClosedOnEveryExit == pc = "exited" => close_calls = 1

\* C15: cycles never overlap and searches run one after another: a cycle
\* starts only from the startup or from the sleep that ends the one before,
\* the sleep starts only from the removal pass, the removal pass only when
\* the last search ended, the sleep lasts 60 times the smallest check
\* interval of the groups, and the search index moves by one at a time
C15_CyclesSequential ==
    [][/\ cycle_count' # cycle_count
            => pc = "cycle_start" /\ cycle_count' = cycle_count + 1
       /\ (pc' = "cycle_start" /\ pc # "cycle_start")
            => pc \in {"sleep", "init_notifier"}
       /\ (pc' = "sleep" /\ pc # "sleep") => pc = "remove"
       /\ (pc' = "remove" /\ pc # "remove")
            => pc \in {"fetch", "process"} /\ search_idx = NumSearches
       /\ (pc = "sleep" /\ pc' = "cycle_start")
            => /\ \E k \in DOMAIN intervals :
                    slept' = 60 * CheckInterval(intervals[k])
               /\ \A k \in DOMAIN intervals :
                    slept' <= 60 * CheckInterval(intervals[k])
       /\ search_idx' # search_idx
            => \/ pc = "cycle_start" /\ search_idx' = 1
               \/ /\ pc \in {"fetch", "process"}
                  /\ search_idx' = search_idx + 1
                  /\ pc' = IF search_idx < NumSearches THEN "fetch"
                           ELSE "remove"]_vars

C15_Witness ==
    /\ cycle_count = 2
    /\ pc = "fetch"
    /\ search_idx = 2
    /\ Len(intervals) = 2
    /\ intervals[1].has /\ intervals[1].minutes = 30
    /\ intervals[2].has /\ intervals[2].minutes = 5
    /\ slept = 300

\* C16: when the reported total is positive and more fragments are primary,
\* exactly the first total of them are kept, in their order; when the
\* primary fragments are not more than the reported total, or no total is
\* reported, all of them are kept
C16_Truncation ==
    (stage = "partitioned" /\ ListingElements(inp) # <<>>
       /\ ~(inp.header /\ inp.total = 0))
    => LET primary == FailOpen(inp)
           total == TotalResults(inp)
       IN  /\ Len(out) = IF total > 0 /\ Len(primary) > total
                         THEN total ELSE Len(primary)
           /\ \A k \in 1..Len(out) : out[k] = primary[k]

C16_Witness ==
    /\ stage = "partitioned"
    /\ inp.header /\ inp.total = 2 /\ ~inp.main_content
    /\ Len(inp.fragments) = 3
    /\ \A k \in 1..3 : inp.fragments[k].tag = "article" /\ ~inp.fragments[k].rec
    /\ out = <<1, 2>>

\* C17: a positive reported total with no fragment classified primary gives
\* an empty result
C17_NoPrimaryGivesEmpty ==
    (stage = "partitioned" /\ TotalResults(inp) > 0 /\ Classified(inp) = <<>>)
    => out = <<>>

\* C18 as stated: with no main region and a positive total every found
\* fragment is kept as primary (up to the truncation)
C18_FailOpenAll ==
    (stage = "partitioned" /\ ~inp.main_content /\ TotalResults(inp) > 0)
    => \A j \in 1..Len(ListingElements(inp)) :
          j <= TotalResults(inp) => (j <= Len(out) /\ out[j] = ListingElements(inp)[j])

\* C18 amended: with no main region, a positive total and every found
\* fragment under a recommendation-marked ancestor, every found fragment is
\* kept as primary (up to the truncation)
C18_FailOpenWhenNoneUnflagged ==
    (stage = "partitioned" /\ ~inp.main_content /\ TotalResults(inp) > 0
       /\ \A j \in 1..Len(ListingElements(inp)) :
             inp.fragments[ListingElements(inp)[j]].rec)
    => \A j \in 1..Len(ListingElements(inp)) :
          j <= TotalResults(inp) => (j <= Len(out) /\ out[j] = ListingElements(inp)[j])

C18_Witness ==
    /\ stage = "partitioned"
    /\ ~inp.main_content /\ inp.header /\ inp.total = 3
    /\ Len(inp.fragments) = 2
    /\ \A k \in 1..2 : inp.fragments[k].tag = "article" /\ inp.fragments[k].rec
    /\ out = <<1, 2>>

\* what each source gives for a field, 0 when it gives nothing
FirstNonZero(values) ==
    IF \E k \in DOMAIN values : values[k] # 0
    THEN values[CHOOSE k \in DOMAIN values :
                   values[k] # 0 /\ \A j \in 1..(k - 1) : values[j] = 0]
    ELSE 0

DetailKilometers(detail) ==
    IF detail.iconName = "mileage_road" THEN DigitsOnly(detail.data).val
    ELSE 0

DetailYear(detail) ==
    IF detail.iconName # "calendar" THEN 0
    ELSE IF YearSlash(detail.data).ok THEN YearSlash(detail.data).val
    ELSE Year4(detail.data).val

\* C19: each of price, year and kilometers of the record is the value of
\* the first source, in the order attributes, vehicleDetails, tracking,
\* price object, that gives a non-zero value for that field
C19_FallbackPrecedence ==
    (stage = "extracted" /\ out.some)
    => /\ out.price =
            FirstNonZero(<<FromAttributes(inp).price,
                           IntOf(inp.tracking.price).val,
                           DigitsOnly(inp.priceFormatted).val>>)
       /\ out.year =
            FirstNonZero(<<FromAttributes(inp).year>>
                         \o [k \in DOMAIN inp.vehicleDetails |->
                               DetailYear(inp.vehicleDetails[k])]
                         \o <<YearDash(inp.tracking.firstRegistration).val>>)
       /\ out.kilometers =
            FirstNonZero(<<FromAttributes(inp).kilometers>>
                         \o [k \in DOMAIN inp.vehicleDetails |->
                               DetailKilometers(inp.vehicleDetails[k])]
                         \o <<IntOf(inp.tracking.mileage).val>>)

C19_Witness ==
    /\ stage = "extracted"
    /\ inp.data_price = "100" /\ inp.tracking.price = "300"
    /\ inp.priceFormatted = "15.990,-"
    /\ inp.data_mileage = Absent /\ inp.data_first_registration = "new"
    /\ out.some
    /\ out.price = 100 /\ out.year = 2015 /\ out.kilometers = 70000

\* C20: the record of a fragment with an identifier has price, year and
\* kilometers not negative and first_seen not after last_seen
C20_RecordWellFormed ==
    (stage = "extracted" /\ ListingId(inp) # "" /\ out.some)
    => /\ out.price >= 0 /\ out.year >= 0 /\ out.kilometers >= 0
       /\ out.first_seen <= out.last_seen

\* C21: a fragment with an identifier always gives a record, whatever its
\* field sources hold
C21_NullOnlyWithoutId ==
    (stage = "extracted" /\ ListingId(inp) # "") => out.some

\* C22: the url of every record is absolute
C22_UrlAbsolute ==
    (stage = "extracted" /\ out.some)
    => out.url = "https://www.autoscout24.de/angebote/B"

\* the positions of the parameters called key in a query
PositionsOf(query, key) == {k \in DOMAIN query : query[k].key = key}

Emitted(query, key) == PositionsOf(query, key) # {}

C24_FiltersMapped ==
    stage = "built"
    => LET q == out[1].query
           Set(filter) == filter.state = "set"
       IN  /\ (Set(inp.price_range) /\ inp.price_range.min # 0)
                <=> Emitted(q, "pricefrom")
           /\ (Set(inp.price_range) /\ inp.price_range.max # 0)
                <=> Emitted(q, "priceto")
           /\ Set(inp.year_range)
                <=> (Emitted(q, "fregfrom") /\ Emitted(q, "fregto"))
           /\ Set(inp.kilometers_range) <=> Emitted(q, "kmfrom")
           /\ Set(inp.max_kilometers) <=> Emitted(q, "kmto")
           /\ Set(inp.body_type) <=> Emitted(q, "body")
           /\ Set(inp.seats)
                <=> (Emitted(q, "seatsfrom") /\ Emitted(q, "seatsto"))
           /\ Set(inp.fuel_type) <=> Emitted(q, "fuel")
           /\ Set(inp.transmission) <=> Emitted(q, "gear")
           /\ Set(inp.doors)
                <=> (Emitted(q, "doorfrom") /\ Emitted(q, "doorto"))
           /\ Set(inp.equipment) <=> Emitted(q, "eq")
           /\ Set(inp.color) <=> Emitted(q, "color")
           /\ Set(inp.power_range) <=> Emitted(q, "powerfrom")
           /\ Set(inp.zip) <=> Emitted(q, "zip")
           /\ Set(inp.zipr) <=> Emitted(q, "zipr")

\* C25: cy is the list of all country codes when the countries are absent
\* or hold an unknown name, else the codes of the countries in their order
C25_CountryFallback ==
    stage = "built"
    => out[1].query[2] =
         Param("cy",
               IF \/ inp.countries.state = "absent"
                  \/ \E k \in DOMAIN inp.countries.v :
                        CountryCode(inp.countries.v[k]) = <<>>
               THEN "D%2CA%2CB%2CE%2CF%2CI%2CL%2CNL"
               ELSE JoinCodes(MappedCodes(inp.countries.v)))

\* C26: the loop is entered only when the directory holds a search file and
\* every search file is well formed
C26_ConfigErrorsFatal ==
    stage = "loop"
    => /\ ConfigFiles(inp) # <<>>
       /\ \A k \in DOMAIN inp : inp[k] \in {"valid", "template"}

\* C27: the table never holds two rows of one id, and an add_listing that
\* repeats the add_listing before it leaves the table as it is
C27_UpsertIdempotent ==
    [][/\ \A r1, r2 \in out' : r1.id = r2.id => r1 = r2
       /\ (stage = "added" /\ stage' = "added" /\ inp' = inp)
            => out' = out]_vars

C27_Witness ==
    /\ stage = "added"
    /\ inp.price = 200
    /\ inp \in out
    /\ Cardinality(out) = 2

\* C28: the cleaned title is the result of the first of the patterns
\* "make model", "makemodel", "make" that changes the collapsed and
\* unmarked title, whether or not the collapse and the removal of the
\* markers changed the title before
C28_FirstChangingPattern ==
    (stage = "cleaned" /\ inp.words # <<>>)
    => LET w == inp.words
           stripped == IF SubMakeModel(w) # w THEN SubMakeModel(w)
                       ELSE IF SubMakeModelJoined(w) # w
                       THEN SubMakeModelJoined(w)
                       ELSE SubMake(w)
       IN  out = IF stripped = <<>> THEN <<"Volkswagen", "T5">> ELSE stripped

\* C29: every id that a search of the cycle returned is in the id list that
\* the removal pass of the cycle receives
C29_ReturnedIdsListed == pc = "remove" => returned_ids \subseteq all_current_ids

\* C30: the removal pass of a cycle without a failed search and with an
\* observed id leaves exactly the observed ids in the store, the new and the
\* updated count add up to the listings found, and no more listings were
\* counted new than there are observed ids
C30_CycleReconciled ==
    [][(/\ pc = "remove" /\ pc' = "sleep"
        /\ cycle_stats.searches_failed = 0
        /\ all_current_ids # {})
         => /\ DOMAIN store' = all_current_ids
            /\ cycle_stats.new_listings + cycle_stats.updated_listings
                 = cycle_stats.total_listings
            /\ cycle_stats.new_listings <= Cardinality(all_current_ids)]_vars

C30_Witness ==
    /\ pc = "sleep"
    /\ cycle_count = 2
    /\ cycle_stats.searches_failed = 0
    /\ cycle_stats.total_listings = 3
    /\ cycle_stats.new_listings = 1
    /\ cycle_stats.updated_listings = 2
    /\ all_current_ids = {"B"}
    /\ DOMAIN store = {"B"}
    /\ removed_count = 1

====
